---- MODULE Spec2Model ----
(***************************************************************************)
(* Model of xtb_stda_python: the report parser log2energy, the two stage   *)
(* runners save_wavefunction and wavefunction_stda, the single-item        *)
(* pipeline mol2energy and the batch driver mols2energy.                   *)
(***************************************************************************)
EXTENDS Integers, Sequences, FiniteSets, TLC

(***************************************************************************)
(* Report text.  A text is a sequence of symbols.  The section heading     *)
(* phrase is one symbol: the code only tests whether a line contains it,   *)
(* and its first character is a letter, so for the regular expression it   *)
(* behaves as one non-blank, non-numeric character.                        *)
(***************************************************************************)
MaxLen == 6

NL == "\n"

Heading == "excitation energies, transition moments and TDA amplitudes"

\* the symbols of the texts the parser specification draws
Alphabet == {"0", "1", ".", " ", "x", NL, Heading}

Digits == {"0", "1"}

DigitValue(c) == IF c = "1" THEN 1 ELSE 0

IsSpace(c) == c = " "

IsNumChar(c) == c \in Digits \cup {"."}

\* str.split("\n"): the pieces between newlines; "" splits to one empty line
RECURSIVE SplitFrom(_, _, _)
SplitFrom(s, i, cur) ==
    IF i > Len(s) THEN <<cur>>
    ELSE IF s[i] = NL THEN <<cur>> \o SplitFrom(s, i + 1, <<>>)
    ELSE SplitFrom(s, i + 1, Append(cur, s[i]))

Split(s) == SplitFrom(s, 1, <<>>)

\* line.strip() == ""
Blank(line) == \A k \in 1..Len(line) : IsSpace(line[k])

\* "excitation energies, ..." in line
HasHeading(line) == \E k \in 1..Len(line) : line[k] = Heading

\* the largest n such that the n symbols from position i on all satisfy the test
RECURSIVE SpaceRun(_, _)
SpaceRun(line, i) ==
    IF i <= Len(line) /\ IsSpace(line[i]) THEN 1 + SpaceRun(line, i + 1) ELSE 0

RECURSIVE NumRun(_, _)
NumRun(line, i) ==
    IF i <= Len(line) /\ IsNumChar(line[i]) THEN 1 + NumRun(line, i + 1) ELSE 0

\* re.match(r"\s*1\s*([.0-9]*)", line): every quantifier is greedy and what
\* follows a star can match the empty string, so there is no backtracking
\* past the literal 1: the match exists iff the first non-blank symbol is 1
ReMatches(line) ==
    LET p == SpaceRun(line, 1) + 1
    IN  p <= Len(line) /\ line[p] = "1"

\* energy_match.group(1)
ReGroup1(line) ==
    LET p == SpaceRun(line, 1) + 1
        q == p + 1 + SpaceRun(line, p + 1)
    IN  SubSeq(line, q, q + NumRun(line, q) - 1)

DotCount(tok) == Cardinality({k \in 1..Len(tok) : tok[k] = "."})

\* float(tok) on a token of [.0-9]* succeeds iff it has a digit and at most
\* one point
FloatOk(tok) == DotCount(tok) <= 1 /\ Len(tok) - DotCount(tok) >= 1

RECURSIVE DigitsValue(_)
DigitsValue(ds) ==
    IF ds = <<>> THEN 0
    ELSE 10 * DigitsValue(SubSeq(ds, 1, Len(ds) - 1)) + DigitValue(ds[Len(ds)])

\* a decimal number mant / 10^frac in lowest terms: equal numbers are equal records
RECURSIVE Decimal(_, _)
Decimal(mant, frac) ==
    IF frac > 0 /\ mant % 10 = 0 THEN Decimal(mant \div 10, frac - 1)
    ELSE [mant |-> mant, frac |-> frac]

\* float(tok): the digits of tok read as an integer, scaled by the number of
\* digits after the point
FloatValue(tok) ==
    LET ds   == SelectSeq(tok, LAMBDA c : c \in Digits)
        dot  == IF DotCount(tok) = 0 THEN Len(tok)
                ELSE CHOOSE k \in 1..Len(tok) : tok[k] = "."
    IN  Decimal(DigitsValue(ds), Len(tok) - dot)

NoValue == [kind |-> "None"]

\* the for loop of log2energy from line i on, right_part as left by the
\* lines before; line is the index of the line the loop ended on
RECURSIVE ScanLines(_, _, _)
ScanLines(lines, i, right_part) ==
    IF i > Len(lines) THEN NoValue
    ELSE
      LET line == lines[i]
          rp1  == IF HasHeading(line) THEN TRUE ELSE right_part
          rp2  == IF Blank(line) THEN FALSE ELSE rp1
      IN  IF rp2 /\ ReMatches(line)
          THEN IF FloatOk(ReGroup1(line))
               THEN [kind |-> "float", value |-> FloatValue(ReGroup1(line)), line |-> i]
               ELSE [kind |-> "ValueError", line |-> i]
          ELSE ScanLines(lines, i + 1, rp2)

\* variant: right_part starts True
log2energy_StartInside(stda_log) == ScanLines(Split(stda_log), 1, TRUE)

\* lines 131-141: right_part starts False
log2energy(stda_log) == ScanLines(Split(stda_log), 1, FALSE)

\* the value a caller of log2energy receives
Returned(e) ==
    IF e.kind = "float" THEN [kind |-> "float", value |-> e.value] ELSE NoValue

(***************************************************************************)
(* State.  The batch driver mols2energy maps mol2energy over nmols         *)
(* molecules on a pool of max_workers worker processes; task t is the call *)
(* of the closure on the t-th molecule.  All tasks share one working       *)
(* directory, which holds the workspace directories "tempdir_<name>" and   *)
(* the temporary wavefunction files "tmp_wfn_<name>.xtb".                   *)
(***************************************************************************)
VARIABLES
    stda_log,        \* parser specification: the argument of log2energy
    energy,          \* parser specification: what log2energy did
    environ,         \* os.environ of the processes: thread variable -> value
    nmols,           \* len(mols)
    max_workers,     \* pool size of ProcessPoolExecutor()
    dirs,            \* workspace directories on disk: name -> set of file names
    cwd_files,       \* temporary wavefunction files on disk: name -> the task
                     \* whose xtb4stda run computed the content
    pc,              \* task -> the statement it is at
    temp_file_name,  \* task -> local of mol2energy; outpath or xtb_path of a
                     \* direct stage call
    temp_dir_name,   \* task -> local of the stage runner the task is in
    wfn_read,        \* task -> content of the wfn.xtb copied for its stda run
    out_text,        \* task -> stdout captured from stda
    outcome,         \* task -> the result or the exception of its future
    runs,            \* the external binaries run so far, with their thread variables
    finish_order,    \* the tasks in the order their workers ended them
    main_pc,         \* where mols2energy is
    energies,        \* the list mols2energy builds
    call,            \* task -> the function the task is a call of
    args,            \* task -> nthreads and dat_path of a direct stage call
    dat_files,       \* the paths that hold a copy of tda.dat
    invoked          \* task -> the binaries it has run, with their exit status

pvars == <<stda_log, energy>>

bvars == <<call, args, dat_files, invoked, environ, nmols, max_workers, dirs, cwd_files, pc, temp_file_name,
           temp_dir_name, wfn_read, out_text, outcome, runs, finish_order,
           main_pc, energies>>

vars == <<stda_log, energy, call, args, dat_files, invoked, environ, nmols, max_workers, dirs, cwd_files, pc,
          temp_file_name, temp_dir_name, wfn_read, out_text, outcome, runs,
          finish_order, main_pc, energies>>

MaxMols == 2

MaxWorkers == 2

\* how many different values "".join(choices(ascii_letters, k = 80)) can take
MaxNames == 2

Tasks == 1..MaxMols

RandomNames == 1..MaxNames

NoName == 0

\* how many of the files in its working directory one run of a binary deletes
MaxDeleted == 1

ThreadVars == {"OMP_NUM_THREADS", "MKL_NUM_THREADS"}

\* values of a thread variable in the ambient environment
AmbientValues == {"unset", "4"}

possible_files_xtb ==
    {"charges", "charges2", "charges3", "wbo", "wbo3", "wbofit", "spin",
     "spin3", "dipole", "dipole2", "energy", "pcharge", "fod", "hfc3"}

possible_files_stda ==
    {"TmPvEcInFo", "qia", "zmint", "xlint", "beta_HRS", "tday.dat",
     "tdaz.dat", "qaa", "1st_sf_MO.molden", "NTOvar", "pij", "molden.input",
     ".REF", "NTOspin", "~/.param", "NTOs.html", "yvint", "NTOat", "bmat",
     "tdax.dat", "zlint", "qii", "qab", "molden.molden", "xmint", "zvint",
     "beta_tensor", "qij", "tda.dat", "xvint", "NTOao", ".STDA", "tda.exc",
     "ylint", "ymint", ".OUT", "amb", "wavelength", "wfn.xtb", "fnorm",
     "sint", "2PA-abs", ".ref", "apbmat", "pia", "jmol.spt"}

\* the files save_wavefunction writes before the run
XtbStaged == {"param_x.xtb", "param_v.xtb", "mol.xyz"}

\* the files wavefunction_stda writes before the run
StdaStaged == {"wfn.xtb"}

\* files the binaries may create in their working directory: the wavefunction,
\* one file of the stage's list and one file that is on no list
XtbCreates == {"wfn.xtb", "charges", "xtb.unlisted"}

StdaCreates == {"tda.dat", "stda.unlisted"}

Report(s) == [i \in 1..Len(s) |-> IF s[i] = "H" THEN Heading ELSE s[i]]

\* what stda may print: a report with the row "1 1", one with the row "1 10",
\* one without the section and one whose row has no number
StdaReports ==
    { Report(<<"x", NL, NL, "H", NL, "x", NL, " ", "1", " ", "1", NL, NL, "x">>),
      Report(<<"H", NL, "1", " ", "1", "0", " ", "x">>),
      Report(<<"x", NL, "1", " ", "1">>),
      Report(<<"H", NL, "1", " ", "x">>) }

NotCalled == [kind |-> "not called"]

NoOutcome == [kind |-> "pending"]

Raised(type, at) == [kind |-> "raised", type |-> type, at |-> at]

Restrict(f, S) == [x \in S |-> f[x]]

\* the optional arguments left at their defaults
NoArgs == [nthreads |-> "None", dat_path |-> "None"]

\* the nthreads argument of the stage the task is in: the closure calls
\* mol2energy with nthreads = 1, which passes it to save_wavefunction and
\* not to wavefunction_stda; a direct call has its own argument
NThreads(t, stage) ==
    IF call[t] = "mol2energy"
    THEN IF stage = "save_wavefunction" THEN "1" ELSE "None"
    ELSE args[t].nthreads

\* the dat_path argument of wavefunction_stda; mol2energy passes none
DatPath(t) == IF call[t] = "mol2energy" THEN "None" ELSE args[t].dat_path

(***************************************************************************)
(* Library calls                                                           *)
(***************************************************************************)
\* variant: mkdir with exist_ok
MkdirFails_ExistOk(name) == FALSE

\* os.mkdir raises FileExistsError when the directory exists
MkdirFails(name) == name \in DOMAIN dirs

\* the directories after mkdir(name) has returned
Mkdir(name) == IF name \in DOMAIN dirs THEN dirs ELSE dirs @@ (name :> {})

\* the environment of a subprocess: environ.copy() with both thread
\* variables set to str(nthreads) unless nthreads is None
RunEnv(nthreads) ==
    IF nthreads = "None" THEN environ ELSE [v \in ThreadVars |-> nthreads]

\* variant: the thread variables are set in os.environ itself
EnvironAfterRun_NoCopy(nthreads) == RunEnv(nthreads)

\* os.environ after a stage has built the environment of its subprocess:
\* the stage changes only the copy
EnvironAfterRun(nthreads) == environ

\* variant: run without check = True
CheckFails_Unchecked(exit_zero) == FALSE

\* run(..., check = True) raises CalledProcessError on a non-zero exit
CheckFails(exit_zero) == ~exit_zero

\* variant: the wavefunction file is moved into the workspace
AfterCopy_Move(path) == Restrict(cwd_files, DOMAIN cwd_files \ {path})

\* the wavefunction files after copy(path, ...): the source stays
AfterCopy(path) == cwd_files

\* variant: a file already at the destination is kept
Replaced_KeepExisting(path, t) ==
    IF path \in DOMAIN cwd_files THEN cwd_files ELSE cwd_files @@ (path :> t)

\* the wavefunction files after os.replace has moved the wfn.xtb computed by
\* task t to path: a file already there is overwritten
Replaced(path, t) ==
    [n \in DOMAIN cwd_files \cup {path} |-> IF n = path THEN t ELSE cwd_files[n]]

\* variant: every temporary wavefunction file is removed
Removed_All(path) == Restrict(cwd_files, {})

\* the wavefunction files after remove(path)
Removed(path) == Restrict(cwd_files, DOMAIN cwd_files \ {path})

\* what a binary can leave in its working directory: it may delete up to
\* MaxDeleted of the files it finds and create any of the files it knows
FilesAfterRun(before, creates) ==
    {kept \cup made :
        kept \in {k \in SUBSET before : Cardinality(before \ k) <= MaxDeleted},
        made \in SUBSET creates}

(***************************************************************************)
(* The cleanup blocks.  Each gives the files left in the workspace, whether *)
(* the block raised (error) and whether rmdir removed the directory.       *)
(***************************************************************************)
CleanupResult(files, error, removed) ==
    [files |-> files, error |-> error, removed |-> removed]

\* remove(path) for each path of paths in turn: raises at the first that is
\* missing, with the ones before it already removed
RECURSIVE RemoveAll(_, _)
RemoveAll(files, paths) ==
    IF paths = <<>> THEN CleanupResult(files, "none", FALSE)
    ELSE IF Head(paths) \notin files THEN CleanupResult(files, "FileNotFoundError", FALSE)
    ELSE RemoveAll(files \ {Head(paths)}, Tail(paths))

\* rmdir(temp_dir_name): raises OSError unless the directory is empty
Rmdir(files) ==
    IF files = {} THEN CleanupResult({}, "none", TRUE)
    ELSE CleanupResult(files, "OSError", FALSE)

\* variant: the error of rmdir is swallowed
XtbCleanup_Swallow(files) ==
    LET r == RemoveAll(files \ possible_files_xtb, <<"mol.xyz", "param_x.xtb", "param_v.xtb">>)
    IN  IF r.error # "none" THEN r
        ELSE IF r.files = {} THEN Rmdir(r.files)
        ELSE CleanupResult(r.files, "none", FALSE)

\* variant: the directory is removed with all it holds
XtbCleanup_Rmtree(files) == CleanupResult({}, "none", TRUE)

\* lines 64-75 of save_wavefunction
XtbCleanup(files) ==
    LET r == RemoveAll(files \ possible_files_xtb, <<"mol.xyz", "param_x.xtb", "param_v.xtb">>)
    IN  IF r.error # "none" THEN r ELSE Rmdir(r.files)

\* variant: a failed removal is followed by the removal of the directory
\* with all it holds
StdaCleanup_Finally(files) ==
    LET r == RemoveAll(files, <<"wfn.xtb">>)
    IN  IF r.error # "none" THEN CleanupResult({}, r.error, TRUE)
        ELSE Rmdir(r.files \ possible_files_stda)

\* lines 115-123 of wavefunction_stda
StdaCleanup(files) ==
    LET r == RemoveAll(files, <<"wfn.xtb">>)
    IN  IF r.error # "none" THEN r ELSE Rmdir(r.files \ possible_files_stda)

(***************************************************************************)
(* Worker side: one task is one call of Mol2EnergyClosure.__call__, that   *)
(* is mol2energy(mol, ..., nthreads = 1)                                   *)
(***************************************************************************)
Running(t) == pc[t] \notin {"pending", "cancelled", "finished", "raised"}

Ended(t) == pc[t] \in {"finished", "raised"}

\* the exception leaves mol2energy and becomes the exception of the future
Raise(t, type) ==
    /\ pc' = [pc EXCEPT ![t] = "raised"]
    /\ outcome' = [outcome EXCEPT ![t] = Raised(type, pc[t])]
    /\ finish_order' = Append(finish_order, t)

Goto(t, label) ==
    /\ pc' = [pc EXCEPT ![t] = label]
    /\ UNCHANGED <<outcome, finish_order>>

SetDir(name, files) == [dirs EXCEPT ![name] = files]

\* a worker takes the next work item off the call queue and enters mol2energy,
\* which draws the name of its temporary wavefunction file
StartTask(t) ==
    /\ main_pc \in {"map", "unwinding"}
    /\ t <= nmols /\ pc[t] = "pending"
    /\ \A u \in 1..(t - 1) : pc[u] # "pending"
    /\ Cardinality({u \in Tasks : Running(u)}) < max_workers
    /\ \E name \in RandomNames :
          temp_file_name' = [temp_file_name EXCEPT ![t] = name]
    /\ Goto(t, "sw_mkdir")
    /\ UNCHANGED <<stda_log, energy, call, args, dat_files, invoked,
                   environ, nmols, max_workers, dirs, cwd_files, temp_dir_name,
                   wfn_read, out_text, runs, main_pc, energies>>

\* lines 38-39 and 83-84: draw a directory name and create the directory
MakeTempDir(t, next) ==
    \E name \in RandomNames :
        /\ temp_dir_name' = [temp_dir_name EXCEPT ![t] = name]
        /\ IF MkdirFails(name)
           THEN Raise(t, "FileExistsError") /\ UNCHANGED dirs
           ELSE Goto(t, next) /\ dirs' = Mkdir(name)

SW_Mkdir(t) ==
    /\ pc[t] = "sw_mkdir"
    /\ MakeTempDir(t, "sw_stage")
    /\ UNCHANGED <<stda_log, energy, call, args, dat_files, invoked,
                   environ, nmols, max_workers, cwd_files, temp_file_name,
                   wfn_read, out_text, runs, main_pc, energies>>

\* lines 42-49: write the two parameter files and the structure file
SW_Stage(t) ==
    /\ pc[t] = "sw_stage"
    /\ dirs' = SetDir(temp_dir_name[t], dirs[temp_dir_name[t]] \cup XtbStaged)
    /\ Goto(t, "sw_run")
    /\ UNCHANGED <<stda_log, energy, call, args, dat_files, invoked,
                   environ, nmols, max_workers, cwd_files, temp_file_name,
                   temp_dir_name, wfn_read, out_text, runs, main_pc, energies>>

\* lines 52-58: run xtb4stda in the workspace; check = True raises on a
\* non-zero exit
SW_Run(t) ==
    /\ pc[t] = "sw_run"
    /\ runs' = runs \cup {[binary |-> "xtb4stda",
                            env |-> RunEnv(NThreads(t, "save_wavefunction"))]}
    /\ environ' = EnvironAfterRun(NThreads(t, "save_wavefunction"))
    /\ \E after \in FilesAfterRun(dirs[temp_dir_name[t]], XtbCreates) :
          dirs' = SetDir(temp_dir_name[t], after)
    /\ \E exit_zero \in BOOLEAN :
          /\ invoked' = [invoked EXCEPT ![t] =
                           Append(@, [binary |-> "xtb4stda", exit_zero |-> exit_zero])]
          /\ IF CheckFails(exit_zero) THEN Raise(t, "CalledProcessError")
             ELSE Goto(t, "sw_replace")
    /\ UNCHANGED <<stda_log, energy, call, args, dat_files, nmols, max_workers,
                   cwd_files, temp_file_name, temp_dir_name, wfn_read, out_text,
                   main_pc, energies>>

\* lines 61-62: replace(temp_wavefunction_path, outpath)
SW_Replace(t) ==
    /\ pc[t] = "sw_replace"
    /\ IF "wfn.xtb" \in dirs[temp_dir_name[t]]
       THEN /\ dirs' = SetDir(temp_dir_name[t], dirs[temp_dir_name[t]] \ {"wfn.xtb"})
            /\ cwd_files' = Replaced(temp_file_name[t], t)
            /\ Goto(t, "sw_cleanup")
       ELSE /\ Raise(t, "FileNotFoundError")
            /\ UNCHANGED <<dirs, cwd_files>>
    /\ UNCHANGED <<stda_log, energy, call, args, dat_files, invoked,
                   environ, nmols, max_workers, temp_file_name, temp_dir_name,
                   wfn_read, out_text, runs, main_pc, energies>>

\* the stage runner returns value: mol2energy goes on at next, a direct call
\* ends with the value
StageReturn(t, next, value) ==
    IF call[t] = "mol2energy" THEN Goto(t, next)
    ELSE /\ pc' = [pc EXCEPT ![t] = "finished"]
         /\ outcome' = [outcome EXCEPT ![t] = [kind |-> "returned", value |-> value]]
         /\ finish_order' = Append(finish_order, t)

\* a cleanup block and the return of the stage runner after it
CleanupAndReturn(t, r, next, value) ==
    /\ dirs' = IF r.removed
               THEN Restrict(dirs, DOMAIN dirs \ {temp_dir_name[t]})
               ELSE SetDir(temp_dir_name[t], r.files)
    /\ IF r.error = "none"
       THEN /\ StageReturn(t, next, value)
            /\ temp_dir_name' = [temp_dir_name EXCEPT ![t] = NoName]
       ELSE Raise(t, r.error) /\ UNCHANGED temp_dir_name

\* lines 64-75, and the return to the caller (save_wavefunction returns None)
SW_Cleanup(t) ==
    /\ pc[t] = "sw_cleanup"
    /\ CleanupAndReturn(t, XtbCleanup(dirs[temp_dir_name[t]]), "stda_mkdir", NoValue)
    /\ UNCHANGED <<stda_log, energy, call, args, dat_files, invoked,
                   environ, nmols, max_workers, cwd_files, temp_file_name,
                   wfn_read, out_text, runs, main_pc, energies>>

STDA_Mkdir(t) ==
    /\ pc[t] = "stda_mkdir"
    /\ MakeTempDir(t, "stda_copy")
    /\ UNCHANGED <<stda_log, energy, call, args, dat_files, invoked,
                   environ, nmols, max_workers, cwd_files, temp_file_name,
                   wfn_read, out_text, runs, main_pc, energies>>

\* lines 88-89: copy(xtb_path, copied_xtb_path)
STDA_Copy(t) ==
    /\ pc[t] = "stda_copy"
    /\ IF temp_file_name[t] \in DOMAIN cwd_files
       THEN /\ dirs' = SetDir(temp_dir_name[t], dirs[temp_dir_name[t]] \cup StdaStaged)
            /\ wfn_read' = [wfn_read EXCEPT ![t] = cwd_files[temp_file_name[t]]]
            /\ cwd_files' = AfterCopy(temp_file_name[t])
            /\ Goto(t, "stda_run")
       ELSE /\ Raise(t, "FileNotFoundError")
            /\ UNCHANGED <<dirs, wfn_read, cwd_files>>
    /\ UNCHANGED <<stda_log, energy, call, args, dat_files, invoked,
                   environ, nmols, max_workers, temp_file_name,
                   temp_dir_name, out_text, runs, main_pc, energies>>

\* lines 93-113: run stda in the workspace and keep its stdout; check = True
\* raises on a non-zero exit; then copy tda.dat to dat_path if one was given
STDA_Run(t) ==
    /\ pc[t] = "stda_run"
    /\ runs' = runs \cup {[binary |-> "stda",
                            env |-> RunEnv(NThreads(t, "wavefunction_stda"))]}
    /\ environ' = EnvironAfterRun(NThreads(t, "wavefunction_stda"))
    /\ \E after \in FilesAfterRun(dirs[temp_dir_name[t]], StdaCreates),
          exit_zero \in BOOLEAN :
          /\ dirs' = SetDir(temp_dir_name[t], after)
          /\ invoked' = [invoked EXCEPT ![t] =
                           Append(@, [binary |-> "stda", exit_zero |-> exit_zero])]
          /\ IF CheckFails(exit_zero)
             THEN /\ Raise(t, "CalledProcessError")
                  /\ UNCHANGED <<out_text, dat_files>>
             ELSE /\ \E text \in StdaReports :
                        out_text' = [out_text EXCEPT ![t] = text]
                  /\ IF DatPath(t) = "None"
                     THEN Goto(t, "stda_cleanup") /\ UNCHANGED dat_files
                     ELSE IF "tda.dat" \in after
                          THEN /\ Goto(t, "stda_cleanup")
                               /\ dat_files' = dat_files \cup {DatPath(t)}
                          ELSE /\ Raise(t, "FileNotFoundError")
                               /\ UNCHANGED dat_files
    /\ UNCHANGED <<stda_log, energy, call, args, nmols, max_workers, cwd_files,
                   temp_file_name, temp_dir_name, wfn_read, main_pc, energies>>

\* lines 115-125, and the return to the caller (wavefunction_stda returns the
\* captured stdout)
STDA_Cleanup(t) ==
    /\ pc[t] = "stda_cleanup"
    /\ CleanupAndReturn(t, StdaCleanup(dirs[temp_dir_name[t]]), "m2e_remove",
                        [kind |-> "text", text |-> out_text[t]])
    /\ UNCHANGED <<stda_log, energy, call, args, dat_files, invoked,
                   environ, nmols, max_workers, cwd_files, temp_file_name,
                   wfn_read, out_text, runs, main_pc, energies>>

\* lines 159-162: remove the temporary wavefunction file, parse the log and
\* return the energy
M2E_Finish(t) ==
    /\ pc[t] = "m2e_remove"
    /\ IF temp_file_name[t] \notin DOMAIN cwd_files
       THEN /\ Raise(t, "FileNotFoundError")
            /\ UNCHANGED cwd_files
       ELSE /\ cwd_files' = Removed(temp_file_name[t])
            /\ LET e == log2energy(out_text[t])
               IN  IF e.kind = "ValueError" THEN Raise(t, "ValueError")
                   ELSE /\ pc' = [pc EXCEPT ![t] = "finished"]
                        /\ outcome' = [outcome EXCEPT ![t] =
                                         [kind |-> "returned", value |-> Returned(e)]]
                        /\ finish_order' = Append(finish_order, t)
    /\ UNCHANGED <<stda_log, energy, call, args, dat_files, invoked,
                   environ, nmols, max_workers, dirs, temp_file_name,
                   temp_dir_name, wfn_read, out_text, runs, main_pc, energies>>

(***************************************************************************)
(* Caller side: mols2energy, lines 191-194.  pool.map submits every        *)
(* molecule, then yields the results of the futures in submission order;   *)
(* result() of a future re-raises the exception of its task.               *)
(***************************************************************************)
\* variant: results taken in the order the tasks end
NextFuture_AsCompleted == finish_order[Len(energies) + 1]

\* the future whose result list(pool.map(...)) waits for next
NextFuture == Len(energies) + 1

\* variant: the failure of a task is put in the list as "no value"
Collect_NoneOnFailure ==
    /\ main_pc = "map"
    /\ Len(energies) < nmols
    /\ Ended(NextFuture)
    /\ energies' = Append(energies, IF pc[NextFuture] = "finished"
                                    THEN outcome[NextFuture].value ELSE NoValue)
    /\ UNCHANGED <<stda_log, energy, call, args, dat_files, invoked,
                   environ, nmols, max_workers, dirs, cwd_files, pc,
                   temp_file_name, temp_dir_name, wfn_read, out_text, outcome,
                   runs, finish_order, main_pc>>

\* list(pool.map(...)) takes the result of the next future: its value goes in
\* the list, its exception leaves the with block
Collect ==
    /\ main_pc = "map"
    /\ Len(energies) < nmols
    /\ Len(energies) < Len(finish_order)     \* implied by the next conjunct
    /\ Ended(NextFuture)
    /\ IF pc[NextFuture] = "finished"
       THEN /\ energies' = Append(energies, outcome[NextFuture].value)
            /\ UNCHANGED main_pc
       ELSE /\ main_pc' = "unwinding"
            /\ UNCHANGED energies
    /\ UNCHANGED <<stda_log, energy, call, args, dat_files, invoked,
                   environ, nmols, max_workers, dirs, cwd_files, pc,
                   temp_file_name, temp_dir_name, wfn_read, out_text, outcome,
                   runs, finish_order>>

\* the iterator of pool.map cancels the futures still pending when it is
\* closed by the exception
CancelPending(t) ==
    /\ main_pc = "unwinding"
    /\ t <= nmols /\ pc[t] = "pending"
    /\ pc' = [pc EXCEPT ![t] = "cancelled"]
    /\ UNCHANGED <<stda_log, energy, call, args, dat_files, invoked,
                   environ, nmols, max_workers, dirs, cwd_files,
                   temp_file_name, temp_dir_name, wfn_read, out_text, outcome,
                   runs, finish_order, main_pc, energies>>

\* leaving the with block waits for the workers; then the exception leaves
\* mols2energy
Reraise ==
    /\ main_pc = "unwinding"
    /\ \A t \in 1..nmols : pc[t] \in {"cancelled", "finished", "raised"}
    /\ main_pc' = "raised"
    /\ UNCHANGED <<stda_log, energy, call, args, dat_files, invoked,
                   environ, nmols, max_workers, dirs, cwd_files, pc,
                   temp_file_name, temp_dir_name, wfn_read, out_text, outcome,
                   runs, finish_order, energies>>

\* line 194: return energies
Return ==
    /\ main_pc = "map"
    /\ Len(energies) = nmols
    /\ main_pc' = "returned"
    /\ UNCHANGED <<stda_log, energy, call, args, dat_files, invoked,
                   environ, nmols, max_workers, dirs, cwd_files, pc,
                   temp_file_name, temp_dir_name, wfn_read, out_text, outcome,
                   runs, finish_order, energies>>

Init ==
    /\ stda_log = <<>>
    /\ energy = NotCalled
    /\ call = [t \in Tasks |-> "mol2energy"]
    /\ args = [t \in Tasks |-> NoArgs]
    /\ dat_files = {}
    /\ invoked = [t \in Tasks |-> <<>>]
    /\ \E a \in AmbientValues : environ = [v \in ThreadVars |-> a]
    /\ nmols \in 0..MaxMols
    /\ max_workers \in 1..MaxWorkers
    /\ dirs = <<>>
    /\ cwd_files = <<>>
    /\ pc = [t \in Tasks |-> "pending"]
    /\ temp_file_name = [t \in Tasks |-> NoName]
    /\ temp_dir_name = [t \in Tasks |-> NoName]
    /\ wfn_read = [t \in Tasks |-> NoName]
    /\ out_text = [t \in Tasks |-> <<>>]
    /\ outcome = [t \in Tasks |-> NoOutcome]
    /\ runs = {}
    /\ finish_order = <<>>
    /\ main_pc = "map"
    /\ energies = <<>>

TaskStep(t) ==
    \/ StartTask(t)
    \/ SW_Mkdir(t)
    \/ SW_Stage(t)
    \/ SW_Run(t)
    \/ SW_Replace(t)
    \/ SW_Cleanup(t)
    \/ STDA_Mkdir(t)
    \/ STDA_Copy(t)
    \/ STDA_Run(t)
    \/ STDA_Cleanup(t)
    \/ M2E_Finish(t)
    \/ CancelPending(t)

Next ==
    \/ \E t \in Tasks : TaskStep(t)
    \/ Collect
    \/ Reraise
    \/ Return

Spec == Init /\ [][Next]_vars

(***************************************************************************)
(* Parser specification: the argument is any text of at most MaxLen        *)
(* symbols, and the one action calls log2energy on it.                     *)
(***************************************************************************)
\* the texts of at most n symbols
Texts(n) == UNION {[1..k -> Alphabet] : k \in 0..n}

InitParse ==
    /\ stda_log \in Texts(MaxLen)
    /\ energy = NotCalled
    /\ call = [t \in Tasks |-> "mol2energy"]
    /\ args = [t \in Tasks |-> NoArgs]
    /\ dat_files = {}
    /\ invoked = [t \in Tasks |-> <<>>]
    /\ environ = [v \in ThreadVars |-> "unset"]
    /\ nmols = 0
    /\ max_workers = 1
    /\ dirs = <<>>
    /\ cwd_files = <<>>
    /\ pc = [t \in Tasks |-> "pending"]
    /\ temp_file_name = [t \in Tasks |-> NoName]
    /\ temp_dir_name = [t \in Tasks |-> NoName]
    /\ wfn_read = [t \in Tasks |-> NoName]
    /\ out_text = [t \in Tasks |-> <<>>]
    /\ outcome = [t \in Tasks |-> NoOutcome]
    /\ runs = {}
    /\ finish_order = <<>>
    /\ main_pc = "not called"
    /\ energies = <<>>

CallLog2Energy ==
    /\ energy = NotCalled
    /\ energy' = log2energy(stda_log)
    /\ UNCHANGED stda_log
    /\ UNCHANGED bvars

NextParse == CallLog2Energy

SpecParse == InitParse /\ [][NextParse]_vars

(***************************************************************************)
(* Stage specification: task 1 is one direct call of save_wavefunction or  *)
(* of wavefunction_stda, with or without nthreads and dat_path, made in a  *)
(* working directory that may already hold wavefunction files and a        *)
(* workspace left behind by an earlier call.                               *)
(***************************************************************************)
StageCalls == {"save_wavefunction", "wavefunction_stda"}

\* the optional arguments a direct call can be given
StageArgs(c) ==
    {a \in [nthreads : {"None", "1"}, dat_path : {"None", "out.dat"}] :
        c = "save_wavefunction" => a.dat_path = "None"}

\* the wavefunction files and workspaces found by the call
FilesBefore == UNION {[S -> {NoName}] : S \in SUBSET RandomNames}

DirsBefore == {<<>>} \cup {n :> {"wfn.xtb"} : n \in RandomNames}

InitStages ==
    /\ stda_log = <<>>
    /\ energy = NotCalled
    /\ \E c \in StageCalls, a \in [nthreads : {"None", "1"}, dat_path : {"None", "out.dat"}],
          path \in RandomNames :
          /\ a \in StageArgs(c)
          /\ call = [t \in Tasks |-> IF t = 1 THEN c ELSE "none"]
          /\ args = [t \in Tasks |-> IF t = 1 THEN a ELSE NoArgs]
          /\ pc = [t \in Tasks |->
                     IF t # 1 THEN "pending"
                     ELSE IF c = "save_wavefunction" THEN "sw_mkdir" ELSE "stda_mkdir"]
          /\ temp_file_name = [t \in Tasks |-> IF t = 1 THEN path ELSE NoName]
    /\ dat_files = {}
    /\ invoked = [t \in Tasks |-> <<>>]
    /\ \E a \in AmbientValues : environ = [v \in ThreadVars |-> a]
    /\ nmols = 0
    /\ max_workers = 1
    /\ dirs \in DirsBefore
    /\ cwd_files \in FilesBefore
    /\ temp_dir_name = [t \in Tasks |-> NoName]
    /\ wfn_read = [t \in Tasks |-> NoName]
    /\ out_text = [t \in Tasks |-> <<>>]
    /\ outcome = [t \in Tasks |-> NoOutcome]
    /\ runs = {}
    /\ finish_order = <<>>
    /\ main_pc = "not called"
    /\ energies = <<>>

StageStep(t) ==
    \/ SW_Mkdir(t)
    \/ SW_Stage(t)
    \/ SW_Run(t)
    \/ SW_Replace(t)
    \/ SW_Cleanup(t)
    \/ STDA_Mkdir(t)
    \/ STDA_Copy(t)
    \/ STDA_Run(t)
    \/ STDA_Cleanup(t)

NextStages == \E t \in Tasks : StageStep(t)

SpecStages == InitStages /\ [][NextStages]_vars

(***************************************************************************)
(* Properties of the parser                                                *)
(***************************************************************************)
Called == energy # NotCalled

LogLines == Split(stda_log)

WhitespaceOnly(line) == \A k \in 1..Len(line) : line[k] = " "

\* line j is inside the target section: a heading line at or before it and no
\* empty or whitespace-only line from that heading to line j
InSection(lines, j) ==
    \E h \in 1..j :
        /\ \E k \in 1..Len(lines[h]) : lines[h][k] = Heading
        /\ \A k \in h..j : ~WhitespaceOnly(lines[k])

\* the numeric token of a row "optional whitespace, 1, whitespace, token":
\* the symbols after that whitespace up to the first that is no digit or point
RowToken(line) ==
    LET p == SpaceRun(line, 1) + 1
        q == p + 1 + SpaceRun(line, p + 1)
    IN  SubSeq(line, q, q + NumRun(line, q) - 1)

\* the documented row pattern: optional leading whitespace, literal 1, at
\* least one whitespace, a token of digits with at most one decimal point
RowMatches(line) ==
    LET p == SpaceRun(line, 1) + 1
    IN  /\ p <= Len(line) /\ line[p] = "1"
        /\ SpaceRun(line, p + 1) >= 1
        /\ FloatOk(RowToken(line))

\* the reference two-state scanner: the first line inside the section that
\* matches the documented row pattern
RefScan(lines) ==
    LET hits == {j \in 1..Len(lines) : InSection(lines, j) /\ RowMatches(lines[j])}
    IN  IF hits = {} THEN NoValue
        ELSE LET j == CHOOSE m \in hits : \A n \in hits : m <= n
             IN  [kind |-> "float", value |-> FloatValue(RowToken(lines[j])), line |-> j]

\* C4: a report whose section is never entered, or holds no row of the form
\* (optional whitespace, 1, whitespace, numeric token), gives "no value" and
\* no error
C4_AbsenceGivesNoValue ==
    (Called /\ \A j \in 1..Len(LogLines) :
                  ~(InSection(LogLines, j) /\ RowMatches(LogLines[j])))
        => energy = NoValue

\* C5: log2energy agrees with the reference scanner on every report: same
\* outcome, same value, taken from the same line
C5_AgreesWithReferenceScanner == Called => energy = RefScan(LogLines)

\* C6: a value returned by log2energy comes from a line inside the section: a
\* heading line at or before it and no blank line in between
C6_ValueOnlyFromInsideSection ==
    energy.kind = "float" => InSection(LogLines, energy.line)

\* a value was returned although an earlier row starting with 1 stood outside
\* the section
C6_Witness ==
    /\ energy.kind = "float"
    /\ \E j \in 1..(energy.line - 1) :
          ReMatches(LogLines[j]) /\ ~InSection(LogLines, j)

(***************************************************************************)
(* Properties of the batch driver, the pipeline and the stage runners      *)
(***************************************************************************)
\* C1: in batch mode every run of xtb4stda and of stda has OMP_NUM_THREADS
\* and MKL_NUM_THREADS set to 1
C1_BatchRunsPinnedToOneThread ==
    \A r \in runs : \A v \in ThreadVars : r.env[v] = "1"

\* C2: the list mols2energy returns has one element per molecule, and the
\* i-th element is what mol2energy returned for the i-th molecule
C2_ResultsInInputOrder ==
    main_pc = "returned" =>
        /\ Len(energies) = nmols
        /\ \A i \in 1..nmols :
              outcome[i].kind = "returned" /\ energies[i] = outcome[i].value

\* two workers, the second molecule done first, different energies
C2_Witness ==
    /\ main_pc = "returned"
    /\ max_workers = 2
    /\ finish_order = <<2, 1>>
    /\ energies[1] # energies[2]

\* stage 1 of task t has returned, having written the temporary
\* wavefunction file
TmpCreated(t) ==
    \/ pc[t] = "finished"
    \/ /\ pc[t] = "raised"
       /\ outcome[t].at \in {"stda_mkdir", "stda_copy", "stda_run",
                             "stda_cleanup", "m2e_remove"}

\* C3: when mol2energy ends, by return or by exception, after stage 1 has
\* written the temporary wavefunction file, that file is gone
C3_TempFileGoneWhenDone ==
    [][\A t \in Tasks :
          (~Ended(t) /\ Ended(t)' /\ TmpCreated(t)')
              => temp_file_name[t] \notin DOMAIN cwd_files']_vars

AtCleanup(t) == pc[t] \in {"sw_cleanup", "stda_cleanup"}

\* the stage runner of task t returns to mol2energy in this step
StageReturns(t) ==
    \/ pc[t] = "sw_cleanup" /\ pc'[t] = "stda_mkdir"
    \/ pc[t] = "stda_cleanup" /\ pc'[t] = "m2e_remove"

\* C7: when save_wavefunction or wavefunction_stda returns, the workspace
\* directory it created is not on disk
C7_WorkspaceGoneOnReturn ==
    [][\A t \in Tasks :
          StageReturns(t) => temp_dir_name[t] \notin DOMAIN dirs']_vars

\* both stages of a task have returned and no workspace is on disk
C7_Witness ==
    \E t \in Tasks : pc[t] = "m2e_remove" /\ DOMAIN dirs = {}

\* task t has created its workspace and its stage runner has not ended
InWorkspace(t) ==
    pc[t] \in {"sw_stage", "sw_run", "sw_replace", "sw_cleanup",
               "stda_copy", "stda_run", "stda_cleanup"}

Isolated ==
    \A t, u \in Tasks :
        (t # u /\ InWorkspace(t) /\ InWorkspace(u))
            => temp_dir_name[t] # temp_dir_name[u]

\* a stage runner that draws the name of an existing directory raises at
\* mkdir and changes nothing on disk
MkdirOnExistingFails ==
    \A t \in Tasks :
        (/\ pc[t] \in {"sw_mkdir", "stda_mkdir"}
         /\ pc'[t] # pc[t]
         /\ temp_dir_name'[t] \in DOMAIN dirs)
            => /\ pc'[t] = "raised"
               /\ outcome'[t].type = "FileExistsError"
               /\ dirs' = dirs /\ cwd_files' = cwd_files

\* C8: no two live stage invocations use the same workspace directory, and an
\* invocation that draws the name of an existing directory fails at mkdir
\* before touching anything
C8_WorkspacesIsolated == []Isolated /\ [][MkdirOnExistingFails]_vars

\* a task failed at mkdir on the directory another task is working in
C8_Witness ==
    \E t, u \in Tasks :
        /\ InWorkspace(t)
        /\ pc[u] = "raised" /\ outcome[u].type = "FileExistsError"
        /\ temp_dir_name[u] = temp_dir_name[t]

\* C9: a cleanup that finds nothing but files it is due to remove completes,
\* whichever of those files are absent
C9_MissingFilesAreNotErrors ==
    [][\A t \in Tasks :
          /\ (/\ pc[t] = "sw_cleanup" /\ pc'[t] # pc[t]
              /\ dirs[temp_dir_name[t]] \subseteq possible_files_xtb \cup XtbStaged)
                 => pc'[t] = "stda_mkdir"
          /\ (/\ pc[t] = "stda_cleanup" /\ pc'[t] # pc[t]
              /\ dirs[temp_dir_name[t]] \subseteq possible_files_stda \cup StdaStaged)
                 => pc'[t] = "m2e_remove"]_vars

\* the files in the workspace of task t that its cleanup block does not remove
Unaccounted(t) ==
    dirs[temp_dir_name[t]] \
        (IF pc[t] = "sw_cleanup" THEN possible_files_xtb \cup XtbStaged
         ELSE possible_files_stda \cup StdaStaged)

StagedInputs(t) == IF pc[t] = "sw_cleanup" THEN XtbStaged ELSE StdaStaged

\* C10: a cleanup that finds a file it does not account for never returns:
\* the stage raises (OSError from rmdir when the staged inputs are all
\* there), and the directory and the file stay on disk
C10_LeftoverFailsTheStage ==
    [][\A t \in Tasks :
          (AtCleanup(t) /\ pc'[t] # pc[t] /\ Unaccounted(t) # {})
              => /\ pc'[t] = "raised"
                 /\ StagedInputs(t) \subseteq dirs[temp_dir_name[t]]
                       => outcome'[t].type = "OSError"
                 /\ temp_dir_name[t] \in DOMAIN dirs'
                 /\ Unaccounted(t) \subseteq dirs'[temp_dir_name[t]]]_vars

\* a stage raised at rmdir and its workspace still holds a file
C10_Witness ==
    \E t \in Tasks :
        /\ pc[t] = "raised"
        /\ outcome[t].at \in {"sw_cleanup", "stda_cleanup"}
        /\ outcome[t].type = "OSError"
        /\ temp_dir_name[t] \in DOMAIN dirs
        /\ dirs[temp_dir_name[t]] # {}

(***************************************************************************)
(* Properties of the exit status of the binaries                           *)
(***************************************************************************)
\* the statement of task t that runs the binary
RunLabel(binary) == IF binary = "xtb4stda" THEN "sw_run" ELSE "stda_run"

\* C11: a task runs each binary at most once, xtb4stda before stda; a
\* non-zero exit is the last thing the task does: it ends with
\* CalledProcessError raised by that run, so after a non-zero exit of
\* xtb4stda no stda runs and no energy is returned
C11_NonZeroExitEndsTheRun ==
    \A t \in Tasks :
        /\ \A i, j \in DOMAIN invoked[t] :
              invoked[t][i].binary = invoked[t][j].binary => i = j
        /\ \A i \in DOMAIN invoked[t] :
              /\ invoked[t][i].binary = "stda" => i = 2
              /\ ~invoked[t][i].exit_zero =>
                    /\ i = Len(invoked[t])
                    /\ pc[t] = "raised"
                    /\ outcome[t] = Raised("CalledProcessError",
                                           RunLabel(invoked[t][i].binary))

\* xtb4stda exited non-zero in one task, and the caller got the exception,
\* while another task ran both binaries
C11_Witness ==
    \E t, u \in Tasks :
        /\ invoked[t] = <<[binary |-> "xtb4stda", exit_zero |-> FALSE]>>
        /\ Len(invoked[u]) = 2
        /\ main_pc = "raised"

(***************************************************************************)
(* Properties of the list mols2energy returns                              *)
(***************************************************************************)
\* what log2energy makes of the report stda printed for molecule i
OwnEnergy(i) ==
    LET e == log2energy(out_text[i])
    IN  IF e.kind = "float" THEN [kind |-> "float", value |-> e.value]
        ELSE IF e.kind = "None" THEN NoValue
        ELSE [kind |-> "no return"]

\* C12: when mols2energy returns a list, every task has returned, and slot i
\* holds what log2energy makes of the report of molecule i, an energy or "no
\* value"; so no list is returned when a task raised
C12_ListHoldsOwnEnergies ==
    main_pc = "returned" =>
        /\ Len(energies) = nmols
        /\ \A i \in 1..nmols :
              /\ pc[i] = "finished"
              /\ outcome[i].kind = "returned"
              /\ energies[i] = OwnEnergy(i)
              /\ energies[i].kind \in {"float", "None"}

\* a list was returned with an energy in one slot and "no value", from another
\* report, in the other
C12_Witness ==
    /\ main_pc = "returned"
    /\ nmols = 2
    /\ energies[1].kind = "None"
    /\ energies[2].kind = "float"

\* the exception that leaves mols2energy: the one of the first future, in
\* input order, whose task raised, as the worker raised it
Surfaced == outcome[NextFuture]

\* C13: the exception that leaves mols2energy tells which molecule failed:
\* no task other than the one whose exception is surfaced has raised an
\* exception equal to it
C13_FailureNamesItsPosition ==
    main_pc = "raised" =>
        \A u \in 1..nmols : outcome[u] = Surfaced => u = NextFuture

(***************************************************************************)
(* Properties of the stage runners called directly                         *)
(***************************************************************************)
\* task t is in wavefunction_stda
InStda(t) == pc[t] \in {"stda_mkdir", "stda_copy", "stda_run", "stda_cleanup"}

\* the directories other than the workspace of task t are as they were
OtherDirsKept(t) ==
    \A d \in DOMAIN dirs \ {temp_dir_name[t], temp_dir_name'[t]} :
        d \in DOMAIN dirs' /\ dirs'[d] = dirs[d]

\* C14: no step of wavefunction_stda, whether it goes on, returns or raises,
\* removes or changes a wavefunction file outside its workspace: the file at
\* xtb_path stays as it was, and so does any wfn.xtb in another directory
C14_StdaLeavesItsInput ==
    [][\A t \in Tasks :
          (InStda(t) /\ pc'[t] # pc[t])
              => /\ cwd_files' = cwd_files
                 /\ OtherDirsKept(t)]_vars

\* wavefunction_stda has returned, its workspace is gone, the file at
\* xtb_path is there and so is the wfn.xtb of an older workspace
C14_Witness ==
    \E t \in Tasks :
        /\ call[t] = "wavefunction_stda"
        /\ pc[t] = "finished"
        /\ temp_file_name[t] \in DOMAIN cwd_files
        /\ wfn_read[t] = cwd_files[temp_file_name[t]]
        /\ \E d \in DOMAIN dirs : "wfn.xtb" \in dirs[d]

\* C15: no step of save_wavefunction or wavefunction_stda, called with or
\* without nthreads, changes os.environ of the calling process
C15_EnvironUntouched == [][environ' = environ]_vars

\* a stage called with nthreads = 1 has returned: its binary ran with both
\* thread variables set to 1, and os.environ still has the ambient values
C15_Witness ==
    \E t \in Tasks :
        /\ call[t] \in StageCalls
        /\ args[t].nthreads = "1"
        /\ pc[t] = "finished"
        /\ \E r \in runs : r.env = [v \in ThreadVars |-> "1"] /\ r.env # environ

\* the wavefunction files that task t has written
WrittenBy(t) == {n \in DOMAIN cwd_files : cwd_files[n] = t}

\* the order of save_wavefunction, as seen in a state
OutpathFollowsZeroExit(t) ==
    /\ WrittenBy(t) # {} =>
          /\ WrittenBy(t) = {temp_file_name[t]}
          /\ invoked[t] = <<[binary |-> "xtb4stda", exit_zero |-> TRUE]>>
    /\ (\E i \in DOMAIN invoked[t] : ~invoked[t][i].exit_zero) =>
          \A n \in DOMAIN cwd_files : cwd_files[n] = NoName
    /\ pc[t] = "finished" =>
          /\ temp_file_name[t] \in DOMAIN cwd_files
          /\ cwd_files[temp_file_name[t]] = t

\* the order of save_wavefunction, as seen in a step
RunFollowsStaging ==
    /\ \A t \in Tasks :
          (pc[t] = "sw_run" /\ pc'[t] # pc[t])
              => XtbStaged \subseteq dirs[temp_dir_name[t]]
    /\ cwd_files' # cwd_files =>
          \E t \in Tasks : pc[t] = "sw_replace" /\ pc'[t] = "sw_cleanup"

\* C16: save_wavefunction runs xtb4stda only when the two parameter files and
\* the structure file are in the workspace; it writes outpath only at its
\* replace statement, after xtb4stda exited zero; after a non-zero exit the
\* files are as the call found them; when it has returned, outpath holds the
\* wavefunction this call computed, whatever was there before
C16_SaveWavefunctionOrder ==
    /\ [](\A t \in Tasks : call[t] = "save_wavefunction" => OutpathFollowsZeroExit(t))
    /\ [][RunFollowsStaging]_vars

\* save_wavefunction has returned, outpath holds its wavefunction, and the
\* other wavefunction file the call found is as it was
C16_Witness ==
    \E t \in Tasks :
        /\ call[t] = "save_wavefunction"
        /\ pc[t] = "finished"
        /\ cwd_files[temp_file_name[t]] = t
        /\ DOMAIN cwd_files = RandomNames

\* the call of task t raised after its mkdir had succeeded
RaisedAfterMkdir(t) ==
    pc[t] = "raised" /\ outcome[t].at \notin {"sw_mkdir", "stda_mkdir"}

\* the directories on disk once the call of task t has ended
WorkspaceLeftIffRaised(t) ==
    IF RaisedAfterMkdir(t)
    THEN /\ temp_dir_name[t] \in DOMAIN dirs
         /\ Restrict(dirs, DOMAIN dirs \ {temp_dir_name[t]}) \in DirsBefore
    ELSE dirs \in DirsBefore

\* what a step of a stage runner does to its workspace when it ends the call
EndingStepKeepsOrRemoves(t) ==
    LET d == temp_dir_name[t]
    IN  /\ (pc[t] \in {"sw_mkdir", "stda_mkdir"} /\ pc'[t] = "raised")
              => dirs' = dirs
        /\ (pc[t] \notin {"sw_mkdir", "stda_mkdir"} /\ pc'[t] = "raised")
              => /\ d \in DOMAIN dirs'
                 /\ pc[t] \in {"sw_replace", "stda_copy"} => dirs' = dirs
                 /\ AtCleanup(t) => /\ dirs'[d] \subseteq dirs[d]
                                    /\ Unaccounted(t) \subseteq dirs'[d]
        /\ pc'[t] = "finished" => d \in DOMAIN dirs /\ d \notin DOMAIN dirs'

\* C17: once a direct call of a stage runner has ended, the directory it
\* created is on disk exactly if the call raised after mkdir had succeeded;
\* the step that raises removes no directory, changes nothing when it is the
\* replace or the copy, and in the cleanup block leaves every file not yet
\* removed; the step that returns removes the directory
C17_WorkspaceLeftOnFailure ==
    /\ [](\A t \in Tasks : (call[t] \in StageCalls /\ Ended(t)) => WorkspaceLeftIffRaised(t))
    /\ [][\A t \in Tasks : pc'[t] # pc[t] => EndingStepKeepsOrRemoves(t)]_vars

\* wavefunction_stda was given a dat_path and stda exited zero without
\* writing tda.dat: the call raised and its workspace, with the copied
\* wavefunction, is on disk
C17_Witness ==
    \E t \in Tasks :
        /\ pc[t] = "raised"
        /\ outcome[t] = Raised("FileNotFoundError", "stda_run")
        /\ temp_dir_name[t] \in DOMAIN dirs
        /\ "wfn.xtb" \in dirs[temp_dir_name[t]]
        /\ dat_files = {}

(***************************************************************************)
(* Properties of the temporary wavefunction files of concurrent runs       *)
(***************************************************************************)
\* the names of the wavefunction files that the step removes or overwrites
Touched == {n \in DOMAIN cwd_files : n \notin DOMAIN cwd_files' \/ cwd_files'[n] # cwd_files[n]}

\* no other run has drawn the temporary file name of task t
Unshared(t) == \A u \in Tasks \ {t} : temp_file_name[u] # temp_file_name[t]

\* C18 as claimed: whatever names the runs draw, the wavefunction a run
\* copies for its stda run is the one its own xtb4stda run wrote, and a run
\* removes or overwrites only files that it wrote itself
C18_OwnWavefunctionAnyNames ==
    /\ [](\A t \in Tasks : wfn_read[t] \in {NoName, t})
    /\ [][\A u \in Tasks : pc'[u] # pc[u] => \A n \in Touched : cwd_files[n] = u]_vars

\* C18: a run whose temporary file name no other run has drawn copies for
\* its stda run the wavefunction its own xtb4stda run wrote, and the files
\* it removes or overwrites are files that it wrote itself; a run touches no
\* file under a name other than its own
C18_OwnWavefunctionDistinctNames ==
    /\ [](\A t \in Tasks : Unshared(t) => wfn_read[t] \in {NoName, t})
    /\ [][\A u \in Tasks :
             pc'[u] # pc[u] =>
                 \A n \in Touched : /\ n = temp_file_name[u]
                                    /\ Unshared(u) => cwd_files[n] = u]_vars

\* two runs with different temporary file names have both copied their own
\* wavefunction while the file of the other was on disk
C18_Witness ==
    \E t, u \in Tasks :
        /\ t # u
        /\ temp_file_name[t] # temp_file_name[u]
        /\ wfn_read[t] = t /\ wfn_read[u] = u
        /\ {temp_file_name[t], temp_file_name[u]} \subseteq DOMAIN cwd_files
====
